---- MODULE Spec2Model ----
(***************************************************************************)
(* Credential flows of ms-tech-blog: sign-in, password change and profile  *)
(* update, as Remix route actions running concurrently against one         *)
(* relational store and a signed cookie session.                           *)
(*                                                                         *)
(* Strings that the code inspects character by character (passwords and    *)
(* e-mail addresses) are sequences of one-character strings.               *)
(***************************************************************************)
EXTENDS Integers, Sequences, FiniteSets, TLC

(* ------------------------------ bounds --------------------------------- *)

\* number of HTTP requests that may be in flight / answered in one behaviour
NumRequests == 2

\* number of distinct salts bcrypt.hash may draw
NumSalts == 1

Requests == 1..NumRequests
Salts == 1..NumSalts

(* ------------------------- program constants --------------------------- *)

MinPasswordLen == 8
MaxPasswordLen == 255
MaxEmailLen == 255
MaxNameLen == 255
MaxBioLen == 1000
BcryptCost == 12

NULL == "null"

(* ------------------------------ strings -------------------------------- *)

Letters ==
  {"A","B","C","D","E","F","G","H","I","J","K","L","M","N","O","P","Q","R","S",
   "T","U","V","W","X","Y","Z","a","b","c","d","e","f","g","h","i","j","k","l",
   "m","n","o","p","q","r","s","t","u","v","w","x","y","z"}

Digits == {"0","1","2","3","4","5","6","7","8","9"}

\* /[A-Za-z]/.test(password)
HasLetter(s) == \E i \in 1..Len(s) : s[i] \in Letters

\* /[0-9]/.test(password)
HasDigit(s) == \E i \in 1..Len(s) : s[i] \in Digits

\* the passwords and addresses the requests of the model submit
PW_OLD == <<"P","a","s","s","w","0","r","d">>
PW_NEW1 == <<"N","e","w","P","a","s","s","1">>
PW_NEW2 == <<"N","e","w","P","a","s","s","2">>
PW_OTHER == <<"S","e","c","r","e","t","4","2">>
PW_SHORT == <<"a","b","c","1">>
PW_NODIGIT == <<"p","a","s","s","w","o","r","d">>
PW_NOLETTER == <<"1","2","3","4","5","6","7","8">>
PW_LONG == [i \in 1..(MaxPasswordLen + 1) |-> IF i = 1 THEN "1" ELSE "a"]
EMPTY == << >>

EMAIL_A == <<"a","@","x",".","i","o">>
EMAIL_B == <<"b","@","x",".","i","o">>
EMAIL_C == <<"c","@","x",".","i","o">>
EMAIL_BAD == <<"n","o","p","e">>

NAME_A == <<"A","n","n">>
NAME_B == <<"B","o","b">>

UserIds == {"u1", "u2"}

(* --------------------------- password hasher --------------------------- *)

\* bcrypt digest: the cost and the salt are stored in the digest, the
\* plaintext is only recoverable by recomputation
NoHash == [alg |-> "none", cost |-> 0, salt |-> 0, of |-> EMPTY]

\* bcrypt.hash(plaintext, cost) with the salt it generated
Hash(plaintext, cost, salt) ==
  [alg |-> "bcrypt", cost |-> cost, salt |-> salt, of |-> plaintext]

\* bcrypt.compare(plaintext, digest): re-hash with the digest's own salt and cost
Compare(plaintext, digest) ==
  /\ digest.alg = "bcrypt"
  /\ Hash(plaintext, digest.cost, digest.salt) = digest

\* a password column that holds the text itself instead of a digest
Plaintext(text) == [alg |-> "plain", cost |-> 0, salt |-> 0, of |-> text]

(* ------------------------------ validation ----------------------------- *)

AtCount(s) == Cardinality({i \in 1..Len(s) : s[i] = "@"})

\* z.string().email(): one "@", a non-empty local part, a dotted domain
IsEmail(s) ==
  /\ AtCount(s) = 1
  /\ \E at \in 1..Len(s) :
       /\ s[at] = "@"
       /\ at > 1
       /\ \E dot \in (at + 2)..(Len(s) - 1) : s[dot] = "."

\* the password rule shared by signInSchema.password and
\* passwordChangeSchema.newPassword; conform turns an empty field into a missing one
PasswordRuleErrors(field, pw, required) ==
  IF pw = EMPTY THEN {<<field, required>>}
  ELSE
    (IF Len(pw) < MinPasswordLen
       THEN {<<field, "Password must be at least 8 characters">>} ELSE {})
    \cup (IF Len(pw) > MaxPasswordLen
       THEN {<<field, "Password must be less than 255 characters">>} ELSE {})
    \cup (IF ~(HasLetter(pw) /\ HasDigit(pw))
       THEN {<<field, "Password must contain at least one letter and one number">>}
       ELSE {})

\* parseWithZod(formData, { schema: signInSchema }): the field errors
SignInErrors(form) ==
  (IF form.email = EMPTY THEN {<<"email", "Email is required">>}
   ELSE (IF ~IsEmail(form.email)
           THEN {<<"email", "Please enter a valid email address">>} ELSE {})
        \cup (IF Len(form.email) > MaxEmailLen
           THEN {<<"email", "Email must be less than 255 characters">>} ELSE {}))
  \cup PasswordRuleErrors("password", form.password, "Password is required")

\* passwordChangeSchema without its object-level refine
PasswordChangeErrors_NoConfirm(form) ==
  (IF form.currentPassword = EMPTY
     THEN {<<"currentPassword", "Current password is required">>} ELSE {})
  \cup PasswordRuleErrors("newPassword", form.newPassword, "New password is required")
  \cup (IF form.confirmNewPassword = EMPTY
     THEN {<<"confirmNewPassword", "Please confirm your new password">>} ELSE {})

\* parseWithZod(formData, { schema: passwordChangeSchema }): the field errors.
\* The object-level refine runs only when no field is missing.
PasswordChangeErrors(form) ==
  LET missing ==
        (IF form.currentPassword = EMPTY
           THEN {<<"currentPassword", "Current password is required">>} ELSE {})
        \cup (IF form.newPassword = EMPTY
           THEN {<<"newPassword", "New password is required">>} ELSE {})
        \cup (IF form.confirmNewPassword = EMPTY
           THEN {<<"confirmNewPassword", "Please confirm your new password">>} ELSE {})
      fields ==
        IF form.newPassword = EMPTY THEN {}
        ELSE PasswordRuleErrors("newPassword", form.newPassword, "New password is required")
  IN  missing \cup fields
      \cup (IF missing = {} /\ form.newPassword # form.confirmNewPassword
            THEN {<<"confirmNewPassword", "Passwords don't match">>} ELSE {})

\* parseWithZod(formData, { schema: schemaForUpdateProfile }): the field errors
ProfileErrors(form) ==
  (IF form.name = EMPTY THEN {<<"name", "Name is required">>}
   ELSE IF Len(form.name) > MaxNameLen
     THEN {<<"name", "Name must be less than 255 characters">>} ELSE {})
  \cup (IF form.email = EMPTY THEN {<<"email", "Email is required">>}
        ELSE IF ~IsEmail(form.email) THEN {<<"email", "Invalid email">>} ELSE {})
  \cup (IF Len(form.bio) > MaxBioLen
          THEN {<<"bio", "Bio must be less than 1000 characters">>} ELSE {})

(* ------------------------- sessions and responses ---------------------- *)

\* "no identity": isAuthenticated's null, and a response without Set-Cookie
NoUser == [id |-> NULL, email |-> EMPTY, name |-> EMPTY]

\* the identity kept in the session cookie
Identity(id, row) == [id |-> id, email |-> row.email, name |-> row.name]

\* authenticator.isAuthenticated(request): the identity of a validly signed
\* cookie, null otherwise; it reads the cookie only, never the store
isAuthenticated(cookie, signed) == IF cookie \in signed THEN cookie ELSE NoUser

NoResp ==
  [http |-> 0, status |-> "none", error |-> {}, setCookie |-> NoUser,
   resetForm |-> FALSE]

\* json(submission.reply()) of a submission that failed validation
ReplyInvalid(errors) ==
  [http |-> 200, status |-> "error", error |-> errors, setCookie |-> NoUser,
   resetForm |-> FALSE]

\* json(submission.reply({ fieldErrors: { [field]: [message] } }), { status })
ReplyFieldError(field, message, http) ==
  [http |-> http, status |-> "error", error |-> {<<field, message>>},
   setCookie |-> NoUser, resetForm |-> FALSE]

\* json(submission.reply(...)) of a successful submission
ReplySuccess(http, cookie, reset) ==
  [http |-> http, status |-> "success", error |-> {}, setCookie |-> cookie,
   resetForm |-> reset]

\* an exception that leaves the action: Remix answers with its error boundary
UnexpectedError ==
  [http |-> 500, status |-> "unexpected", error |-> {}, setCookie |-> NoUser,
   resetForm |-> FALSE]

(* -------------------------------- state -------------------------------- *)

VARIABLES
  db,           \* the User table (with the 1:1 Profile's bio): id -> row
  sessions,     \* the identities of the validly signed session cookies issued so far
  pc,           \* request -> where its handler stands
  req,          \* request -> what the caller sent: route, cookie, params, form
  local,        \* request -> the handler's local variables
  resp,         \* request -> the response returned to the caller
  storeReads,   \* request -> number of store queries it issued
  storeWrites,  \* request -> number of store updates it issued
  blogs         \* the Blog table: id -> row

vars == <<db, sessions, pc, req, local, resp, storeReads, storeWrites, blogs>>

NoForm == [none |-> TRUE]

NoReq == [kind |-> "none", cookie |-> NoUser, userId |-> NULL, form |-> NoForm]

\* user: isAuthenticated's result; updateUser, passwordMatch, hashedPassword,
\* result: updatePassword's locals and return value; thrown: a store call threw;
\* commits: number of session cookies committed for the request
NoLocal ==
  [user |-> NoUser, updateUser |-> NoHash, found |-> FALSE, passwordMatch |-> FALSE,
   hashedPassword |-> NoHash, result |-> NULL, thrown |-> FALSE, commits |-> 0]

InitialDb ==
  [u \in UserIds |->
     IF u = "u1"
       THEN [email |-> EMAIL_A, password |-> Hash(PW_OLD, BcryptCost, 0),
             name |-> NAME_A, bio |-> EMPTY]
       ELSE [email |-> EMAIL_B, password |-> Hash(PW_OTHER, BcryptCost, 0),
             name |-> NAME_B, bio |-> EMPTY]]

TITLE_OLD == <<"O","l","d">>
TITLE_NEW == <<"N","e","w">>
CONTENT == <<"t","e","x","t">>

BlogIds == {1}

InitialBlogs ==
  [b \in BlogIds |-> [title |-> TITLE_OLD, content |-> CONTENT, authorId |-> "u1"]]

Init ==
  /\ blogs = InitialBlogs
  /\ db = InitialDb
  /\ sessions = {Identity("u1", InitialDb["u1"])}
  /\ pc = [r \in Requests |-> "idle"]
  /\ req = [r \in Requests |-> NoReq]
  /\ local = [r \in Requests |-> NoLocal]
  /\ resp = [r \in Requests |-> NoResp]
  /\ storeReads = [r \in Requests |-> 0]
  /\ storeWrites = [r \in Requests |-> 0]

\* request labels are interchangeable: they are handed out in order
CanStart(r) ==
  /\ pc[r] = "idle"
  /\ \A q \in Requests : q < r => pc[q] # "idle"

\* the cookies a caller can present: none, or one the server signed
Cookies == {NoUser} \cup sessions

\* the request ends with response `out`
Finish(r, out) ==
  /\ pc' = [pc EXCEPT ![r] = "done"]
  /\ resp' = [resp EXCEPT ![r] = out]

(* --------------------------- password change --------------------------- *)

PwForm(c, n, cf) == [currentPassword |-> c, newPassword |-> n, confirmNewPassword |-> cf]

\* the password-change forms the callers of the model submit
PasswordForms ==
  { PwForm(PW_OLD, PW_NEW1, PW_NEW1),
    PwForm(PW_OLD, PW_NEW2, PW_NEW2),
    PwForm(PW_NEW1, PW_NEW2, PW_NEW2),
    PwForm(EMPTY, PW_NEW1, PW_NEW1),
    PwForm(PW_OLD, PW_NEW1, PW_NEW2),
    PwForm(PW_OLD, PW_SHORT, PW_SHORT),
    PwForm(PW_OLD, PW_NODIGIT, PW_NODIGIT),
    PwForm(PW_OLD, PW_NOLETTER, PW_NOLETTER),
    PwForm(PW_OLD, PW_LONG, PW_LONG) }

\* action, before updatePassword: the reply that ends the request early, or
\* NoResp when the action goes on to updatePassword
PasswordChangeEarlyReply(user, errors) ==
  IF errors # {} THEN ReplyInvalid(errors)
  ELSE IF user = NoUser
    THEN ReplyFieldError("currentPassword",
                         "You must be signed in to change your password", 200)
    ELSE NoResp

\* the userId the action hands to updatePassword
PasswordChangeTarget(user, routeUserId) == user.id

\* a password-change action that re-issues a session cookie with its answer
PasswordChangeReply_RotatesSession(result, thrown) ==
  IF thrown
    THEN ReplyFieldError("currentPassword", "Current password is incorrect", 200)
    ELSE ReplySuccess(200, Identity("u1", InitialDb["u1"]), TRUE)

\* action, around updatePassword: what it answers given updatePassword's
\* return value and whether updatePassword threw
PasswordChangeReply(result, thrown) ==
  IF thrown
    THEN ReplyFieldError("currentPassword", "Current password is incorrect", 200)
    ELSE ReplySuccess(200, NoUser, TRUE)

\* updatePassword hashing the wrong one of its two password arguments
HashedPassword_OfCurrent(currentPassword, newPassword, salt) ==
  Hash(currentPassword, BcryptCost, salt)

\* updatePassword storing the new password as submitted
HashedPassword_Plaintext(currentPassword, newPassword, salt) ==
  Plaintext(newPassword)

\* updatePassword: the digest it stores
HashedPassword(currentPassword, newPassword, salt) ==
  Hash(newPassword, BcryptCost, salt)

\* the action up to the call of updatePassword
PwStart(r) ==
  /\ CanStart(r)
  /\ \E cookie \in Cookies, userId \in UserIds, form \in PasswordForms :
       LET user == isAuthenticated(cookie, sessions)
           early == PasswordChangeEarlyReply(user, PasswordChangeErrors(form))
       IN  /\ req' = [req EXCEPT ![r] =
                        [kind |-> "password_change", cookie |-> cookie,
                         userId |-> userId, form |-> form]]
           /\ local' = [local EXCEPT ![r].user = user]
           /\ IF early # NoResp
                THEN Finish(r, early)
                ELSE /\ pc' = [pc EXCEPT ![r] = "findUnique"]
                     /\ UNCHANGED resp
  /\ UNCHANGED <<db, sessions, storeReads, storeWrites, blogs>>

\* updatePassword: findUnique, bcrypt.compare, bcrypt.hash
PwFindUnique(r) ==
  /\ pc[r] = "findUnique"
  /\ storeReads' = [storeReads EXCEPT ![r] = @ + 1]
  /\ \E storeThrows \in BOOLEAN, salt \in Salts :
       LET id == PasswordChangeTarget(local[r].user, req[r].userId)
           found == id \in DOMAIN db
           updateUser == IF found THEN db[id].password ELSE NoHash
           passwordMatch == found /\ Compare(req[r].form.currentPassword, updateUser)
       IN  IF storeThrows
             THEN /\ local' = [local EXCEPT ![r].thrown = TRUE]
                  /\ Finish(r, PasswordChangeReply(NULL, TRUE))
           ELSE IF ~found
             THEN /\ local' = [local EXCEPT ![r].result = "User not found"]
                  /\ Finish(r, PasswordChangeReply("User not found", FALSE))
           ELSE IF ~passwordMatch
             THEN /\ local' = [local EXCEPT ![r].found = TRUE,
                                            ![r].updateUser = updateUser,
                                            ![r].result = "Current password is incorrect"]
                  /\ Finish(r, PasswordChangeReply("Current password is incorrect", FALSE))
           ELSE /\ local' = [local EXCEPT
                               ![r].found = TRUE,
                               ![r].updateUser = updateUser,
                               ![r].passwordMatch = TRUE,
                               ![r].hashedPassword =
                                 HashedPassword(req[r].form.currentPassword,
                                                req[r].form.newPassword, salt)]
                /\ pc' = [pc EXCEPT ![r] = "update"]
                /\ UNCHANGED resp
  /\ UNCHANGED <<db, sessions, req, storeWrites, blogs>>

\* updatePassword: user.update, and the action's reply
PwUpdate(r) ==
  /\ pc[r] = "update"
  /\ storeWrites' = [storeWrites EXCEPT ![r] = @ + 1]
  /\ \E storeThrows \in BOOLEAN :
       LET id == PasswordChangeTarget(local[r].user, req[r].userId)
       IN  IF storeThrows
             THEN /\ local' = [local EXCEPT ![r].thrown = TRUE]
                  /\ Finish(r, PasswordChangeReply(NULL, TRUE))
                  /\ UNCHANGED db
             ELSE /\ db' = [db EXCEPT ![id].password = local[r].hashedPassword]
                  /\ Finish(r, PasswordChangeReply(NULL, FALSE))
                  /\ UNCHANGED local
  /\ UNCHANGED <<sessions, req, storeReads, blogs>>

NextPw == \E r \in Requests : PwStart(r) \/ PwFindUnique(r) \/ PwUpdate(r)

SpecPw == Init /\ [][NextPw]_vars

(* -------------------------------- sign-in ------------------------------ *)

\* the sign-in forms the callers of the model submit
SignInForms ==
  [email : {EMAIL_A, EMAIL_B, EMAIL_C, EMAIL_BAD},
   password : {PW_OLD, PW_NEW1, PW_SHORT}]

\* what authenticate('user-pass', request, { successRedirect: '/' }) throws.
\* It always throws: a 302 redirect Response carrying the committed session
\* cookie on success, a 401 Response on bad credentials, and the store's error
\* when the lookup fails. `cause` is what a caller could learn from the thrown value.
Thrown(isResponse, status, cause, cookie) ==
  [isResponse |-> isResponse, status |-> status, cause |-> cause, setCookie |-> cookie]

\* the users whose e-mail is `email` (at most one: the column is unique)
UsersByEmail(table, email) == {u \in DOMAIN table : table[u].email = email}

Authenticate(table, form, storeThrows) ==
  IF storeThrows THEN Thrown(FALSE, 0, "store unavailable", NoUser)
  ELSE IF UsersByEmail(table, form.email) = {}
    THEN Thrown(TRUE, 401, "no such user", NoUser)
  ELSE LET u == CHOOSE x \in UsersByEmail(table, form.email) : TRUE
       IN  IF Compare(form.password, table[u].password)
             THEN Thrown(TRUE, 302, "redirect", Identity(u, table[u]))
             ELSE Thrown(TRUE, 401, "wrong password", NoUser)

\* a catch handler that passes on what authenticate threw
SignInCatch_LeaksCause(e) ==
  IF e.isResponse /\ e.status = 302
    THEN ReplySuccess(e.status, e.setCookie, FALSE)
    ELSE ReplyFieldError("email", e.cause, e.status)

\* a catch handler that answers a redirect without its headers
SignInCatch_DropsCookie(e) ==
  IF e.isResponse /\ e.status = 302
    THEN ReplySuccess(200, NoUser, FALSE)
    ELSE ReplyFieldError("email", "Invalid email or password", 401)

\* the action's .catch((e) => ...)
SignInCatch(e) ==
  IF e.isResponse /\ e.status = 302
    THEN ReplySuccess(e.status, e.setCookie, FALSE)
    ELSE ReplyFieldError("email", "Invalid email or password", 401)

\* the whole sign-in action: it issues one store query, inside authenticate
SignIn(r) ==
  /\ CanStart(r)
  /\ \E form \in SignInForms, storeThrows \in BOOLEAN :
       LET errors == SignInErrors(form)
           e == Authenticate(db, form, storeThrows)
       IN  /\ req' = [req EXCEPT ![r] =
                        [kind |-> "signin", cookie |-> NoUser, userId |-> NULL,
                         form |-> form]]
           /\ IF errors # {}
                THEN /\ ~storeThrows
                     /\ Finish(r, ReplyInvalid(errors))
                     /\ UNCHANGED <<local, sessions, storeReads>>
                ELSE /\ storeReads' = [storeReads EXCEPT ![r] = @ + 1]
                     /\ local' = [local EXCEPT
                                    ![r].thrown = storeThrows,
                                    ![r].result = e.cause,
                                    ![r].commits = IF e.setCookie # NoUser THEN 1 ELSE 0]
                     /\ sessions' = IF e.setCookie # NoUser
                                      THEN sessions \cup {e.setCookie} ELSE sessions
                     /\ Finish(r, SignInCatch(e))
  /\ UNCHANGED <<db, storeWrites, blogs>>

(* ----------------------------- profile update -------------------------- *)

BIO == <<"h","i">>

\* the profile forms the callers of the model submit
ProfileForms ==
  [name : {EMPTY, NAME_B}, email : {EMAIL_BAD, EMAIL_B, EMAIL_C}, bio : {BIO}]

\* the profile action with the payload check moved before the identity checks
ProfileEarlyReply_ValidationFirst(user, routeUserId, errors) ==
  IF errors # {} THEN ReplyInvalid(errors)
  ELSE IF user = NoUser
    THEN ReplyFieldError("userId", "You must be signed in to update your profile", 200)
  ELSE IF user.id # routeUserId
    THEN ReplyFieldError("userId", "You can only update your own profile", 200)
  ELSE NoResp

\* action, before updateProfile: the reply that ends the request early, or
\* NoResp when the action goes on to updateProfile
ProfileEarlyReply(user, routeUserId, errors) ==
  IF user = NoUser
    THEN ReplyFieldError("userId", "You must be signed in to update your profile", 200)
  ELSE IF user.id # routeUserId
    THEN ReplyFieldError("userId", "You can only update your own profile", 200)
  ELSE IF errors # {} THEN ReplyInvalid(errors)
  ELSE NoResp

\* updateProfile throws when the store is down or the new e-mail is another user's
UpdateProfileThrows(table, id, form, storeThrows) ==
  \/ storeThrows
  \/ id \notin DOMAIN table
  \/ \E u \in DOMAIN table : u # id /\ table[u].email = form.email

\* the row updateProfile writes
UpdateProfileRow(row, form) ==
  [row EXCEPT !.name = form.name, !.email = form.email, !.bio = form.bio]

\* a session re-committed with the identity it already held
SessionAfterUpdate_Stale(user, id, row) == user

\* { ...user, ...newUserData } with newUserData the updated row without bio
SessionAfterUpdate(user, id, row) ==
  [user EXCEPT !.id = id, !.email = row.email, !.name = row.name]

\* the whole profile-update action: it issues one store update, updateProfile
ProfileUpdate(r) ==
  /\ CanStart(r)
  /\ \E cookie \in Cookies, userId \in UserIds, form \in ProfileForms,
        storeThrows \in BOOLEAN :
       LET user == isAuthenticated(cookie, sessions)
           early == ProfileEarlyReply(user, userId, ProfileErrors(form))
           row == UpdateProfileRow(db[userId], form)
           session == SessionAfterUpdate(user, userId, row)
       IN  /\ req' = [req EXCEPT ![r] =
                        [kind |-> "profile", cookie |-> cookie, userId |-> userId,
                         form |-> form]]
           /\ IF early # NoResp
                THEN /\ ~storeThrows
                     /\ Finish(r, early)
                     /\ local' = [local EXCEPT ![r].user = user]
                     /\ UNCHANGED <<db, sessions, storeWrites>>
                ELSE /\ storeWrites' = [storeWrites EXCEPT ![r] = @ + 1]
                     /\ IF UpdateProfileThrows(db, userId, form, storeThrows)
                          THEN /\ local' = [local EXCEPT ![r].user = user,
                                                         ![r].thrown = TRUE]
                               /\ Finish(r, UnexpectedError)
                               /\ UNCHANGED <<db, sessions>>
                          ELSE /\ db' = [db EXCEPT ![userId] = row]
                               /\ local' = [local EXCEPT ![r].user = user,
                                                         ![r].commits = 1]
                               /\ sessions' = sessions \cup {session}
                               /\ Finish(r, ReplySuccess(200, session, FALSE))
  /\ UNCHANGED <<storeReads, blogs>>

(* ------------------------------- blog edit ----------------------------- *)

\* the blog forms the callers of the model submit
BlogForms == [title : {EMPTY, TITLE_NEW}, content : {CONTENT}]

\* parseWithZod(formData, { schema: patchBlogSchema }): the field errors
BlogErrors(form) ==
  (IF form.title = EMPTY THEN {<<"title", "Title is required">>} ELSE {})
  \cup (IF form.content = EMPTY THEN {<<"content", "Content is required">>} ELSE {})

\* jsonWithError({ result: submission.reply() }, { message })
ReplyToastError(errors, message) ==
  [http |-> 200, status |-> "error", error |-> errors \cup {<<"toast", message>>},
   setCookie |-> NoUser, resetForm |-> FALSE]

\* a blog action that goes on to updateBlog without looking at the caller
BlogEarlyReply_NoAuthCheck(user, errors) ==
  IF errors # {} THEN ReplyInvalid(errors) ELSE NoResp

\* action, before updateBlog: the reply that ends the request early, or
\* NoResp when the action goes on to updateBlog
BlogEarlyReply(user, errors) ==
  IF user = NoUser
    THEN ReplyToastError(errors, "You must be signed in to edit a blog")
  ELSE IF errors # {} THEN ReplyInvalid(errors)
  ELSE NoResp

\* updateBlog throws when the store is down or the caller has no such blog
UpdateBlogThrows(table, id, userId, storeThrows) ==
  \/ storeThrows
  \/ id \notin DOMAIN table
  \/ table[id].authorId # userId

\* the row updateBlog writes
UpdateBlogRow(row, form) ==
  [row EXCEPT !.title = form.title, !.content = form.content]

\* the whole blog-edit action: it issues one store update, updateBlog.
\* The route's blogId is numeric in every request of the model.
BlogEdit(r) ==
  /\ CanStart(r)
  /\ \E cookie \in Cookies, blogId \in BlogIds, form \in BlogForms,
        storeThrows \in BOOLEAN :
       LET user == isAuthenticated(cookie, sessions)
           early == BlogEarlyReply(user, BlogErrors(form))
       IN  /\ req' = [req EXCEPT ![r] =
                        [kind |-> "blog_edit", cookie |-> cookie, userId |-> NULL,
                         form |-> form]]
           /\ IF early # NoResp
                THEN /\ ~storeThrows
                     /\ Finish(r, early)
                     /\ local' = [local EXCEPT ![r].user = user]
                     /\ UNCHANGED <<blogs, storeWrites>>
                ELSE /\ storeWrites' = [storeWrites EXCEPT ![r] = @ + 1]
                     /\ IF UpdateBlogThrows(blogs, blogId, user.id, storeThrows)
                          THEN /\ local' = [local EXCEPT ![r].user = user,
                                                         ![r].thrown = TRUE]
                               /\ Finish(r, UnexpectedError)
                               /\ UNCHANGED blogs
                          ELSE /\ blogs' = [blogs EXCEPT
                                              ![blogId] = UpdateBlogRow(blogs[blogId], form)]
                               /\ local' = [local EXCEPT ![r].user = user]
                               /\ Finish(r, ReplySuccess(200, NoUser, FALSE))
  /\ UNCHANGED <<db, sessions, storeReads>>

(* ---------------------------- specifications --------------------------- *)

Next ==
  \E r \in Requests :
    \/ PwStart(r)
    \/ PwFindUnique(r)
    \/ PwUpdate(r)
    \/ SignIn(r)
    \/ ProfileUpdate(r)
    \/ BlogEdit(r)

Spec == Init /\ [][Next]_vars

(* ------------------------------ vocabulary ----------------------------- *)

PwFields == {"currentPassword", "newPassword", "confirmNewPassword"}

IsDone(r, kind) == pc[r] = "done" /\ req[r].kind = kind

\* the caller presented a cookie the server signed
Authenticated(r) == req[r].cookie # NoUser

\* a password-change form that breaks one of the input rules
PwInputInvalid(f) ==
  \/ f.currentPassword = EMPTY
  \/ Len(f.newPassword) < MinPasswordLen
  \/ ~HasLetter(f.newPassword)
  \/ ~HasDigit(f.newPassword)
  \/ f.newPassword # f.confirmNewPassword

IncorrectReply(out) ==
  /\ out.status = "error"
  /\ <<"currentPassword", "Current password is incorrect">> \in out.error

(* -------------------------------- claims ------------------------------- *)

\* C1: a finished password-change request that was authenticated, passed
\* validation and whose currentPassword did not verify against the hash it
\* read is answered with the 'Current password is incorrect' error, not with
\* success, and it issued no store update.
C1_MismatchAnsweredIncorrect ==
  \A r \in Requests :
    ( /\ IsDone(r, "password_change")
      /\ Authenticated(r)
      /\ ~PwInputInvalid(req[r].form)
      /\ local[r].found
      /\ ~Compare(req[r].form.currentPassword, local[r].updateUser) )
    => /\ IncorrectReply(resp[r])
       /\ resp[r].status # "success"
       /\ storeWrites[r] = 0

\* C2: whenever a password-change request writes a new hash, the hash it
\* replaces is the hash it read and verified currentPassword against.
C2_WriteReplacesTheHashRead ==
  [][ \A r \in Requests :
        (pc[r] = "update" /\ pc'[r] = "done" /\ ~local'[r].thrown)
        => db[local[r].user.id].password = local[r].updateUser ]_vars

\* C3: of two finished password changes of the same user that both submitted
\* the originally correct current password and different new passwords,
\* exactly one is answered with success and the stored hash verifies against
\* exactly one of the two new passwords.
C3_ExactlyOneOfTwoSucceeds ==
  \A r1, r2 \in Requests :
    ( /\ r1 < r2
      /\ IsDone(r1, "password_change") /\ IsDone(r2, "password_change")
      /\ Authenticated(r1) /\ Authenticated(r2)
      /\ req[r1].cookie.id = req[r2].cookie.id
      /\ ~PwInputInvalid(req[r1].form) /\ ~PwInputInvalid(req[r2].form)
      /\ ~local[r1].thrown /\ ~local[r2].thrown
      /\ Compare(req[r1].form.currentPassword, InitialDb[req[r1].cookie.id].password)
      /\ Compare(req[r2].form.currentPassword, InitialDb[req[r2].cookie.id].password)
      /\ req[r1].form.newPassword # req[r2].form.newPassword )
    => /\ (resp[r1].status = "success") # (resp[r2].status = "success")
       /\ Compare(req[r1].form.newPassword, db[req[r1].cookie.id].password)
            # Compare(req[r2].form.newPassword, db[req[r1].cookie.id].password)

\* C4: a password-change request whose caller is not authenticated, or whose
\* session identity differs from the route's userId, issues no store query
\* and no store update.
C4_OtherUserRejectedBeforeStore ==
  \A r \in Requests :
    ( /\ req[r].kind = "password_change"
      /\ (~Authenticated(r) \/ req[r].cookie.id # req[r].userId) )
    => storeReads[r] = 0 /\ storeWrites[r] = 0

\* C5: a profile update by a signed-in caller whose id differs from the
\* route's userId is answered with the one field error on userId, whether the
\* payload is valid or not; it issues no store update and commits no session.
C5_ProfileOfOtherUserRejected ==
  \A r \in Requests :
    ( /\ req[r].kind = "profile"
      /\ Authenticated(r)
      /\ req[r].cookie.id # req[r].userId )
    => /\ pc[r] = "done"
       /\ resp[r].status = "error"
       /\ resp[r].error = {<<"userId", "You can only update your own profile">>}
       /\ resp[r].setCookie = NoUser
       /\ storeWrites[r] = 0
       /\ local[r].commits = 0

\* C5 happens: one such request with a valid payload and one with an invalid one
C5_Witness ==
  \E r1, r2 \in Requests :
    /\ IsDone(r1, "profile") /\ IsDone(r2, "profile")
    /\ Authenticated(r1) /\ Authenticated(r2)
    /\ req[r1].cookie.id # req[r1].userId
    /\ req[r2].cookie.id # req[r2].userId
    /\ req[r1].form.name # EMPTY /\ IsEmail(req[r1].form.email)
    /\ ~IsEmail(req[r2].form.email)

\* C6: when updatePassword's update completes, the caller's row holds a
\* hash that verifies the new password and (the new password differing from
\* the current one) no longer verifies the current one, nothing else in the
\* table changed, the request has issued exactly one store update and it is
\* answered with success; and an authenticated request with valid input whose
\* currentPassword verifies against the stored hash goes on to that update
\* unless the store throws.
C6_ChangeReplacesTheHash ==
  [][ \A r \in Requests :
        LET f == req[r].form
            id == req[r].cookie.id
        IN  /\ (pc[r] = "update" /\ pc'[r] = "done" /\ ~local'[r].thrown)
               => /\ Compare(f.newPassword, db'[id].password)
                  /\ (f.newPassword # f.currentPassword
                        => ~Compare(f.currentPassword, db'[id].password))
                  /\ db'[id].password.cost = BcryptCost
                  /\ db' = [db EXCEPT ![id].password = db'[id].password]
                  /\ storeWrites'[r] = 1
                  /\ resp'[r].status = "success"
                  /\ resp'[r].error = {}
            /\ ( /\ pc[r] = "findUnique" /\ pc'[r] # "findUnique"
                 /\ ~local'[r].thrown
                 /\ Authenticated(r) /\ ~PwInputInvalid(f)
                 /\ Compare(f.currentPassword, db[id].password) )
               => pc'[r] = "update" ]_vars

\* C6 happens: a finished change whose new password the stored hash verifies
C6_Witness ==
  \E r \in Requests :
    /\ IsDone(r, "password_change")
    /\ storeWrites[r] = 1 /\ ~local[r].thrown
    /\ req[r].form.newPassword # req[r].form.currentPassword
    /\ resp[r].status = "success"
    /\ Compare(req[r].form.newPassword, db[req[r].cookie.id].password)
    /\ ~Compare(req[r].form.currentPassword, db[req[r].cookie.id].password)

\* C7: a password-change request whose input breaks a rule is finished at
\* once with the field errors of the rules it breaks and never reaches the
\* store: no query, no update.
C7_InvalidInputNeverReachesStore ==
  \A r \in Requests :
    (req[r].kind = "password_change" /\ PwInputInvalid(req[r].form))
    => LET f == req[r].form
           e == resp[r].error
       IN  /\ pc[r] = "done"
           /\ resp[r].status = "error"
           /\ e # {}
           /\ \A x \in e : x[1] \in PwFields
           /\ f.currentPassword = EMPTY
                => <<"currentPassword", "Current password is required">> \in e
           /\ (f.newPassword # EMPTY /\ Len(f.newPassword) < MinPasswordLen)
                => <<"newPassword", "Password must be at least 8 characters">> \in e
           /\ (f.newPassword # EMPTY /\ ~(HasLetter(f.newPassword) /\ HasDigit(f.newPassword)))
                => <<"newPassword",
                     "Password must contain at least one letter and one number">> \in e
           /\ (f.newPassword # f.confirmNewPassword /\ f.currentPassword # EMPTY
                 /\ f.newPassword # EMPTY /\ f.confirmNewPassword # EMPTY)
                => <<"confirmNewPassword", "Passwords don't match">> \in e
           /\ storeReads[r] = 0
           /\ storeWrites[r] = 0
           /\ local[r].hashedPassword = NoHash

\* C7 happens: a signed-in caller's form with a mismatched confirmation and
\* another's with a too short password
C7_Witness ==
  \E r1, r2 \in Requests :
    /\ IsDone(r1, "password_change") /\ IsDone(r2, "password_change")
    /\ Authenticated(r1) /\ Authenticated(r2)
    /\ req[r1].form.newPassword # req[r1].form.confirmNewPassword
    /\ Len(req[r1].form.newPassword) >= MinPasswordLen
    /\ Len(req[r2].form.newPassword) < MinPasswordLen

\* a sign-in form that passes signInSchema
SignInWellFormed(f) ==
  /\ IsEmail(f.email) /\ Len(f.email) <= MaxEmailLen
  /\ Len(f.password) >= MinPasswordLen /\ Len(f.password) <= MaxPasswordLen
  /\ HasLetter(f.password) /\ HasDigit(f.password)

\* C8: the answer to a well-formed sign-in with a wrong password for an
\* existing e-mail equals the answer to one with an unknown e-mail: status 401
\* and the single field error 'Invalid email or password' on email.
C8_SignInFailuresAlike ==
  \A r1, r2 \in Requests :
    ( /\ IsDone(r1, "signin") /\ IsDone(r2, "signin")
      /\ SignInWellFormed(req[r1].form) /\ SignInWellFormed(req[r2].form)
      /\ local[r1].result = "wrong password"
      /\ local[r2].result = "no such user" )
    => /\ resp[r1] = resp[r2]
       /\ resp[r1].http = 401
       /\ resp[r1].error = {<<"email", "Invalid email or password">>}

\* C8 happens: one sign-in of each kind has been answered
C8_Witness ==
  \E r1, r2 \in Requests :
    /\ IsDone(r1, "signin") /\ IsDone(r2, "signin")
    /\ local[r1].result = "wrong password"
    /\ req[r1].form.email = EMAIL_A
    /\ local[r2].result = "no such user"
    /\ req[r2].form.email = EMAIL_C

\* C9: a sign-in or password-change request in which a store call threw is
\* answered with an unexpected error (5xx), never with a field error.
C9_StoreFaultIsUnexpectedError ==
  \A r \in Requests :
    ( /\ pc[r] = "done"
      /\ req[r].kind \in {"signin", "password_change"}
      /\ local[r].thrown )
    => /\ resp[r].http >= 500
       /\ resp[r].error = {}

\* C10: a sign-in step with well-formed input, the e-mail of a stored user
\* and that user's password (the store answering) commits one session whose
\* identity is that stored user's and the response carries its cookie; any
\* other sign-in step commits no session, leaves the set of sessions as it
\* was and its response carries no cookie.
C10_SignInIssuesSession ==
  [][ \A r \in Requests :
        (pc[r] = "idle" /\ pc'[r] = "done" /\ req'[r].kind = "signin")
        => LET f == req'[r].form
               owners == {u \in UserIds : /\ db[u].email = f.email
                                          /\ Compare(f.password, db[u].password)}
           IN  IF SignInWellFormed(f) /\ owners # {} /\ ~local'[r].thrown
                 THEN /\ \E u \in owners :
                           resp'[r].setCookie =
                             [id |-> u, email |-> db[u].email, name |-> db[u].name]
                      /\ resp'[r].setCookie \in sessions'
                      /\ resp'[r].status = "success"
                      /\ local'[r].commits = 1
                 ELSE /\ resp'[r].setCookie = NoUser
                      /\ resp'[r].status = "error"
                      /\ sessions' = sessions
                      /\ local'[r].commits = 0 ]_vars

\* C10 happens: a sign-in answered with u1's session cookie and a sign-in
\* that failed
C10_Witness ==
  \E r1, r2 \in Requests :
    /\ IsDone(r1, "signin") /\ IsDone(r2, "signin")
    /\ resp[r1].setCookie # NoUser /\ resp[r1].setCookie.id = "u1"
    /\ resp[r2].setCookie = NoUser /\ resp[r2].status = "error"

\* C11: every user's password column holds a bcrypt digest of work factor
\* 12, never a text as submitted; a column that differs from its initial
\* value holds the digest of the newPassword of a password-change request of
\* that user that issued its update, and a request about to update holds
\* such a digest of its own newPassword.
C11_PasswordColumnHoldsHash ==
  /\ \A u \in DOMAIN db :
       /\ db[u].password.alg = "bcrypt"
       /\ db[u].password.cost = BcryptCost
       /\ db[u].password.salt \in Salts \cup {0}
       /\ \A r \in Requests :
            req[r].kind = "password_change"
            => /\ db[u].password # Plaintext(req[r].form.newPassword)
               /\ db[u].password # Plaintext(req[r].form.currentPassword)
       /\ db[u].password # InitialDb[u].password
            => \E r \in Requests :
                 /\ req[r].kind = "password_change"
                 /\ req[r].cookie.id = u
                 /\ storeWrites[r] = 1
                 /\ db[u].password =
                      Hash(req[r].form.newPassword, BcryptCost, db[u].password.salt)
  /\ \A r \in Requests :
       pc[r] = "update"
       => /\ local[r].hashedPassword.alg = "bcrypt"
          /\ local[r].hashedPassword.cost = BcryptCost
          /\ Compare(req[r].form.newPassword, local[r].hashedPassword)

\* C11 happens: the flow has replaced u1's password column
C11_Witness ==
  /\ db["u1"].password # InitialDb["u1"].password
  /\ \E r \in Requests : IsDone(r, "password_change") /\ storeWrites[r] = 1

\* C12: no step of a password-change request, whatever its outcome, changes
\* the set of valid sessions, commits a session or puts a cookie on the
\* response: every cookie that authenticated before the step authenticates
\* after it.
C12_PasswordChangeKeepsSessions ==
  [][ \A r \in Requests :
        (req'[r].kind = "password_change" /\ pc'[r] # pc[r])
        => /\ sessions' = sessions
           /\ \A c \in sessions : isAuthenticated(c, sessions') = c
           /\ resp'[r].setCookie = NoUser
           /\ local'[r].commits = 0 ]_vars

\* C12 happens: one change replaced the hash, another was refused, and the
\* cookie the first caller presented still authenticates
C12_Witness ==
  \E r1, r2 \in Requests :
    /\ IsDone(r1, "password_change") /\ IsDone(r2, "password_change")
    /\ storeWrites[r1] = 1 /\ ~local[r1].thrown
    /\ db[req[r1].cookie.id].password # InitialDb[req[r1].cookie.id].password
    /\ resp[r2].status = "error"
    /\ isAuthenticated(req[r1].cookie, sessions) = req[r1].cookie
    /\ req[r1].cookie # NoUser

\* C13: a profile-update step of a signed-in caller on their own userId with
\* a valid payload (the store accepting it) commits one session whose identity
\* is the caller's previous identity overlaid with the updated row's name and
\* email, without bio, and the response carries it as its cookie; every other
\* profile-update step commits nothing, sets no cookie and leaves the sessions
\* and the store as they were.
C13_ProfileUpdateReissuesSession ==
  [][ \A r \in Requests :
        (pc[r] = "idle" /\ pc'[r] = "done" /\ req'[r].kind = "profile")
        => LET f == req'[r].form
               c == req'[r].cookie
               id == req'[r].userId
               accepted == /\ c # NoUser /\ c \in sessions
                           /\ c.id = id
                           /\ f.name # EMPTY /\ Len(f.name) <= MaxNameLen
                           /\ IsEmail(f.email)
                           /\ Len(f.bio) <= MaxBioLen
                           /\ ~local'[r].thrown
           IN  IF accepted
                 THEN /\ resp'[r].status = "success"
                      /\ db'[id].name = f.name /\ db'[id].email = f.email
                      /\ db'[id].bio = f.bio
                      /\ resp'[r].setCookie =
                           [c EXCEPT !.email = db'[id].email, !.name = db'[id].name]
                      /\ "bio" \notin DOMAIN resp'[r].setCookie
                      /\ sessions' = sessions \cup {resp'[r].setCookie}
                      /\ local'[r].commits = 1
                 ELSE /\ resp'[r].status # "success"
                      /\ resp'[r].setCookie = NoUser
                      /\ sessions' = sessions
                      /\ local'[r].commits = 0
                      /\ db' = db ]_vars

\* C13 happens: one update re-issued the session with a changed identity and
\* one was rejected for acting on another user's profile
C13_Witness ==
  \E r1, r2 \in Requests :
    /\ IsDone(r1, "profile") /\ IsDone(r2, "profile")
    /\ resp[r1].status = "success"
    /\ resp[r1].setCookie # NoUser
    /\ resp[r1].setCookie # req[r1].cookie
    /\ resp[r1].setCookie \in sessions
    /\ Authenticated(r2) /\ req[r2].cookie.id # req[r2].userId
    /\ resp[r2].setCookie = NoUser

\* C14: a password-change, profile-update or blog-edit request whose caller
\* presents no valid session is finished with an error at once and issues no
\* store update and no store query, whatever its payload.
C14_UnauthenticatedNeverWrites ==
  \A r \in Requests :
    ( /\ req[r].kind \in {"password_change", "profile", "blog_edit"}
      /\ isAuthenticated(req[r].cookie, sessions) = NoUser )
    => /\ pc[r] = "done"
       /\ resp[r].status = "error"
       /\ storeWrites[r] = 0
       /\ storeReads[r] = 0
       /\ local[r].hashedPassword = NoHash
       /\ local[r].commits = 0

\* C14 happens: an unauthenticated blog edit and an unauthenticated password
\* change, both with a valid payload, have been answered
C14_Witness ==
  \E r1, r2 \in Requests :
    /\ IsDone(r1, "blog_edit") /\ ~Authenticated(r1)
    /\ req[r1].form.title # EMPTY
    /\ IsDone(r2, "password_change") /\ ~Authenticated(r2)
    /\ ~PwInputInvalid(req[r2].form)
    /\ blogs = InitialBlogs /\ db = InitialDb

====
